---- MODULE Spec2Model ----
(***************************************************************************)
(* Model of src/app.py: the question pipeline of the library-statistics    *)
(* chatbot.  One script run replays the conversation history (re-rendering *)
(* every stored result bundle) and, when a question was entered, runs the  *)
(* chat input handler: nl_to_sql, the SELECT check, the store execution,   *)
(* artifact generation, the live render and the append to the history.     *)
(*                                                                         *)
(* Texts are sequences of one-character strings, so that upper(), in       *)
(* and + are computed as Python computes them.  Korean literals of the     *)
(* source are written in ASCII; the original is quoted next to each.       *)
(***************************************************************************)
EXTENDS Integers, Sequences, FiniteSets, TLC

VARIABLES
    messages,   \* st.session_state.messages (app.py 425-426): the turns
    frames,     \* the DataFrame objects the bundles refer to (app.py 530,
                \* 541): frames[df] is the present content of object df
    returned,   \* returned[df]: the rows read_sql_query returned for df
    openConns,  \* sqlite3 connections opened (529) and not closed (531)
    openFigs,   \* pyplot figures opened (467, 554) and not closed (483, 560)
    run,        \* what the last script run did (see NoRun)
    questions,  \* questions entered so far
    reruns      \* script reruns without a question so far

vars == <<messages, frames, returned, openConns, openFigs, run, questions, reruns>>

\* Number of questions entered in one session.
MaxQuestions == 1
\* Number of script reruns without a question (widget interactions).
MaxReruns == 2

----------------------------------------------------------------------------
(* Python values                                                           *)

Text(s) == [tag |-> "str", s |-> s]
\* A value that is not text: None, a number, a boolean.
NonText == [tag |-> "nontext"]
Dict(d) == [tag |-> "dict", d |-> d]
List(items) == [tag |-> "list", items |-> items]

IsText(v) == v.tag = "str"

Lowers == <<"a", "b", "c", "d", "e", "f", "g", "h", "i", "j", "k", "l", "m", "n", "o", "p", "q", "r", "s", "t", "u", "v", "w", "x", "y", "z">>
Uppers == <<"A", "B", "C", "D", "E", "F", "G", "H", "I", "J", "K", "L", "M", "N", "O", "P", "Q", "R", "S", "T", "U", "V", "W", "X", "Y", "Z">>

\* str.upper() on one character.
UpperChar(c) ==
    IF \E i \in 1..Len(Lowers) : Lowers[i] = c
    THEN Uppers[CHOOSE i \in 1..Len(Lowers) : Lowers[i] = c]
    ELSE c

\* str.upper()
Upper(s) == [i \in 1..Len(s) |-> UpperChar(s[i])]

\* str.lower() on one character.
LowerChar(c) ==
    IF \E i \in 1..Len(Uppers) : Uppers[i] = c
    THEN Lowers[CHOOSE i \in 1..Len(Uppers) : Uppers[i] = c]
    ELSE c

\* str.lower()
Lower(s) == [i \in 1..Len(s) |-> LowerChar(s[i])]

\* needle in hay, for two texts.
Contains(hay, needle) ==
    \E i \in 0..(Len(hay) - Len(needle)) :
        \A j \in 1..Len(needle) : hay[i + j] = needle[j]

StartsWith(s, prefix) ==
    /\ Len(prefix) <= Len(s)
    /\ \A j \in 1..Len(prefix) : s[j] = prefix[j]

----------------------------------------------------------------------------
(* The completion service and json.loads                                   *)

\* What json.loads does on each response text the model draws from.
JsonDocs == {
    [raw |-> <<"{", "\"", "s", "q", "l", "\"", ":", "\"", "S", "E", "L", "E", "C", "T", " ", "a", "\"", ",", "\"", "e", "x", "p", "l", "a", "n", "a", "t", "i", "o", "n", "\"", ":", "\"", "o", "k", "\"", "}">>,
     ok |-> TRUE, val |-> Dict(("sql" :> Text(<<"S", "E", "L", "E", "C", "T", " ", "a">>)) @@ ("explanation" :> Text(<<"o", "k">>))), err |-> <<>>],
    [raw |-> <<"{", "\"", "s", "q", "l", "\"", ":", "\"", "s", "e", "l", "e", "c", "t", " ", "a", "\"", "}">>,
     ok |-> TRUE, val |-> Dict(("sql" :> Text(<<"s", "e", "l", "e", "c", "t", " ", "a">>))), err |-> <<>>],
    [raw |-> <<"{", "\"", "s", "q", "l", "\"", ":", "\"", "D", "e", "L", "e", "T", "e", " ", "t", ";", "s", "e", "l", "e", "c", "t", " ", "a", "\"", ",", "\"", "e", "x", "p", "l", "a", "n", "a", "t", "i", "o", "n", "\"", ":", "\"", "o", "k", "\"", "}">>,
     ok |-> TRUE, val |-> Dict(("sql" :> Text(<<"D", "e", "L", "e", "T", "e", " ", "t", ";", "s", "e", "l", "e", "c", "t", " ", "a">>)) @@ ("explanation" :> Text(<<"o", "k">>))), err |-> <<>>],
    [raw |-> <<"{", "\"", "s", "q", "l", "\"", ":", "\"", "D", "R", "O", "P", " ", "t", "\"", ",", "\"", "e", "x", "p", "l", "a", "n", "a", "t", "i", "o", "n", "\"", ":", "n", "u", "l", "l", "}">>,
     ok |-> TRUE, val |-> Dict(("sql" :> Text(<<"D", "R", "O", "P", " ", "t">>)) @@ ("explanation" :> NonText)), err |-> <<>>],
    [raw |-> <<"{", "\"", "s", "q", "l", "\"", ":", "\"", "S", "E", "L", "E", "C", "T", " ", "a", ";", "D", "r", "o", "p", " ", "t", "\"", ",", "\"", "e", "x", "p", "l", "a", "n", "a", "t", "i", "o", "n", "\"", ":", "\"", "o", "k", "\"", "}">>,
     ok |-> TRUE, val |-> Dict(("sql" :> Text(<<"S", "E", "L", "E", "C", "T", " ", "a", ";", "D", "r", "o", "p", " ", "t">>)) @@ ("explanation" :> Text(<<"o", "k">>))), err |-> <<>>],
    [raw |-> <<"{", "\"", "s", "q", "l", "\"", ":", "\"", "d", "r", "o", "p", " ", "t", "\"", ",", "\"", "e", "x", "p", "l", "a", "n", "a", "t", "i", "o", "n", "\"", ":", "\"", "o", "k", "\"", "}">>,
     ok |-> TRUE, val |-> Dict(("sql" :> Text(<<"d", "r", "o", "p", " ", "t">>)) @@ ("explanation" :> Text(<<"o", "k">>))), err |-> <<>>],
    [raw |-> <<"{", "\"", "s", "q", "l", "\"", ":", "\"", "\"", ",", "\"", "e", "x", "p", "l", "a", "n", "a", "t", "i", "o", "n", "\"", ":", "\"", "o", "k", "\"", "}">>,
     ok |-> TRUE, val |-> Dict(("sql" :> Text(<<>>)) @@ ("explanation" :> Text(<<"o", "k">>))), err |-> <<>>],
    [raw |-> <<"{", "\"", "s", "q", "l", "\"", ":", "n", "u", "l", "l", ",", "\"", "e", "x", "p", "l", "a", "n", "a", "t", "i", "o", "n", "\"", ":", "\"", "o", "k", "\"", "}">>,
     ok |-> TRUE, val |-> Dict(("sql" :> NonText) @@ ("explanation" :> Text(<<"o", "k">>))), err |-> <<>>],
    [raw |-> <<"{", "\"", "q", "u", "e", "r", "y", "\"", ":", "\"", "s", "e", "l", "e", "c", "t", " ", "a", "\"", "}">>,
     ok |-> TRUE, val |-> Dict(("query" :> Text(<<"s", "e", "l", "e", "c", "t", " ", "a">>))), err |-> <<>>],
    [raw |-> <<"{", "\"", "S", "Q", "L", "\"", ":", "\"", "S", "E", "L", "E", "C", "T", " ", "a", "\"", ",", "\"", "e", "x", "p", "l", "a", "n", "a", "t", "i", "o", "n", "\"", ":", "\"", "o", "k", "\"", "}">>,
     ok |-> TRUE, val |-> Dict(("SQL" :> Text(<<"S", "E", "L", "E", "C", "T", " ", "a">>)) @@ ("explanation" :> Text(<<"o", "k">>))), err |-> <<>>],
    [raw |-> <<"{", "\"", "q", "u", "e", "r", "y", "\"", ":", "\"", "s", "e", "l", "e", "c", "t", " ", "a", "\"", ",", "\"", "S", "Q", "L", "\"", ":", "\"", "d", "r", "o", "p", " ", "t", "\"", "}">>,
     ok |-> TRUE, val |-> Dict(("query" :> Text(<<"s", "e", "l", "e", "c", "t", " ", "a">>)) @@ ("SQL" :> Text(<<"d", "r", "o", "p", " ", "t">>))), err |-> <<>>],
    [raw |-> <<"{", "\"", "q", "u", "e", "r", "y", "\"", ":", "n", "u", "l", "l", ",", "\"", "S", "Q", "L", "\"", ":", "\"", "S", "E", "L", "E", "C", "T", " ", "a", "\"", "}">>,
     ok |-> TRUE, val |-> Dict(("query" :> NonText) @@ ("SQL" :> Text(<<"S", "E", "L", "E", "C", "T", " ", "a">>))), err |-> <<>>],
    [raw |-> <<"{", "\"", "s", "q", "l", "\"", ":", "\"", "d", "r", "o", "p", " ", "t", "\"", ",", "\"", "q", "u", "e", "r", "y", "\"", ":", "\"", "s", "e", "l", "e", "c", "t", " ", "a", "\"", ",", "\"", "S", "Q", "L", "\"", ":", "\"", "S", "E", "L", "E", "C", "T", " ", "a", "\"", "}">>,
     ok |-> TRUE, val |-> Dict(("sql" :> Text(<<"d", "r", "o", "p", " ", "t">>)) @@ ("query" :> Text(<<"s", "e", "l", "e", "c", "t", " ", "a">>)) @@ ("SQL" :> Text(<<"S", "E", "L", "E", "C", "T", " ", "a">>))), err |-> <<>>],
    [raw |-> <<"{", "}">>,
     ok |-> TRUE, val |-> Dict(<<>>), err |-> <<>>],
    [raw |-> <<"{", "\"", "e", "x", "p", "l", "a", "n", "a", "t", "i", "o", "n", "\"", ":", "\"", "o", "k", "\"", "}">>,
     ok |-> TRUE, val |-> Dict(("explanation" :> Text(<<"o", "k">>))), err |-> <<>>],
    [raw |-> <<"{", "\"", "S", "q", "l", "\"", ":", "\"", "S", "E", "L", "E", "C", "T", " ", "a", "\"", ",", "\"", "e", "x", "p", "l", "a", "n", "a", "t", "i", "o", "n", "\"", ":", "n", "u", "l", "l", "}">>,
     ok |-> TRUE, val |-> Dict(("Sql" :> Text(<<"S", "E", "L", "E", "C", "T", " ", "a">>)) @@ ("explanation" :> NonText)), err |-> <<>>],
    [raw |-> <<"[", "\"", "s", "q", "l", "\"", ",", "\"", "e", "x", "p", "l", "a", "n", "a", "t", "i", "o", "n", "\"", "]">>,
     ok |-> TRUE, val |-> List(<<<<"s", "q", "l">>, <<"e", "x", "p", "l", "a", "n", "a", "t", "i", "o", "n">>>>), err |-> <<>>],
    [raw |-> <<"[", "\"", "s", "q", "l", "\"", "]">>,
     ok |-> TRUE, val |-> List(<<<<"s", "q", "l">>>>), err |-> <<>>],
    [raw |-> <<"[", "]">>,
     ok |-> TRUE, val |-> List(<<>>), err |-> <<>>],
    [raw |-> <<"\"", "s", "q", "l", " ", "e", "x", "p", "l", "a", "n", "a", "t", "i", "o", "n", "\"">>,
     ok |-> TRUE, val |-> Text(<<"s", "q", "l", " ", "e", "x", "p", "l", "a", "n", "a", "t", "i", "o", "n">>), err |-> <<>>],
    [raw |-> <<"\"", "q", "u", "e", "r", "y", "\"">>,
     ok |-> TRUE, val |-> Text(<<"q", "u", "e", "r", "y">>), err |-> <<>>],
    [raw |-> <<"5">>,
     ok |-> TRUE, val |-> NonText, err |-> <<>>],
    [raw |-> <<"n", "u", "l", "l">>,
     ok |-> TRUE, val |-> NonText, err |-> <<>>],
    [raw |-> <<"{", "\"", "s", "q", "l", "\"", ":">>,
     ok |-> FALSE, val |-> NonText, err |-> <<"E", "x", "p", "e", "c", "t", "i", "n", "g", " ", "v", "a", "l", "u", "e", ":", " ", "l", "i", "n", "e", " ", "1", " ", "c", "o", "l", "u", "m", "n", " ", "8", " ", "(", "c", "h", "a", "r", " ", "7", ")">>],
    [raw |-> <<"S", "E", "L", "E", "C", "T", " ", "a">>,
     ok |-> FALSE, val |-> NonText, err |-> <<"E", "x", "p", "e", "c", "t", "i", "n", "g", " ", "v", "a", "l", "u", "e", ":", " ", "l", "i", "n", "e", " ", "1", " ", "c", "o", "l", "u", "m", "n", " ", "1", " ", "(", "c", "h", "a", "r", " ", "0", ")">>],
    [raw |-> <<>>,
     ok |-> FALSE, val |-> NonText, err |-> <<"E", "x", "p", "e", "c", "t", "i", "n", "g", " ", "v", "a", "l", "u", "e", ":", " ", "l", "i", "n", "e", " ", "1", " ", "c", "o", "l", "u", "m", "n", " ", "1", " ", "(", "c", "h", "a", "r", " ", "0", ")">>]
}

\* json.loads(content): the parsed value, or the message of what it raises.
json_loads(content) ==
    IF ~IsText(content)
    THEN [ok |-> FALSE, val |-> NonText, err |-> <<"T", "y", "p", "e", "E", "r", "r", "o", "r">>]
    ELSE LET doc == CHOOSE d \in JsonDocs : d.raw = content.s
         IN  [ok |-> doc.ok, val |-> doc.val, err |-> doc.err]

\* The responses of client.chat.completions.create to the query request:
\* the call raises, or it returns a message whose content is a text or None.
OracleErrors == { <<"C", "o", "n", "n", "e", "c", "t", "i", "o", "n", " ", "e", "r", "r", "o", "r", ".">> }

Responses ==
    { [call |-> "raise", err |-> e, content |-> NonText] : e \in OracleErrors }
    \cup { [call |-> "ok", err |-> <<>>, content |-> Text(d.raw)] : d \in JsonDocs }
    \cup { [call |-> "ok", err |-> <<>>, content |-> NonText] }

----------------------------------------------------------------------------
(* nl_to_sql                                                               *)

\* The field names nl_to_sql looks for, as texts.
KeyText ==
    ("sql" :> <<"s", "q", "l">>) @@ ("query" :> <<"q", "u", "e", "r", "y">>) @@ ("SQL" :> <<"S", "Q", "L">>)
    @@ ("explanation" :> <<"e", "x", "p", "l", "a", "n", "a", "t", "i", "o", "n">>)

\* "-- SQL 생성 실패: AI가 올바른 형식을 반환하지 않음"
FailSql == <<"-", "-", " ", "S", "Q", "L", " ", "g", "e", "n", "e", "r", "a", "t", "i", "o", "n", " ", "f", "a", "i", "l", "e", "d", ":", " ", "b", "a", "d", " ", "f", "o", "r", "m", "a", "t">>
\* "AI 응답 오류: "
FailExplanationPrefix == <<"A", "I", " ", "r", "e", "s", "p", "o", "n", "s", "e", " ", "e", "r", "r", "o", "r", ":", " ">>
\* "자동 생성된 쿼리입니다."
DefaultExplanation == <<"a", "u", "t", "o", "-", "g", "e", "n", "e", "r", "a", "t", "e", "d", " ", "q", "u", "e", "r", "y">>
\* "-- Error"
ErrorSql == <<"-", "-", " ", "E", "r", "r", "o", "r">>
\* "쿼리 생성 실패: "
ErrorExplanationPrefix == <<"q", "u", "e", "r", "y", " ", "g", "e", "n", "e", "r", "a", "t", "i", "o", "n", " ", "f", "a", "i", "l", "e", "d", ":", " ">>
\* str(e) of the TypeError Python raises on a value of the wrong type.
TypeErrorMsg == <<"T", "y", "p", "e", "E", "r", "r", "o", "r">>

\* The except branch of nl_to_sql: the dictionary it returns for str(e) = msg.
ErrorResult(msg) ==
    Dict(("sql" :> Text(ErrorSql))
         @@ ("explanation" :> Text(ErrorExplanationPrefix \o msg)))

\* key in data, for a parsed value that supports in.
HasKey(data, key) ==
    CASE data.tag = "dict" -> key \in DOMAIN data.d
      [] data.tag = "list" -> \E i \in 1..Len(data.items) : data.items[i] = KeyText[key]
      [] data.tag = "str"  -> Contains(data.s, KeyText[key])

\* data[key] = value on a dictionary.
SetItem(d, key, value) == (key :> value) @@ d

\* The repair with the two alternate names tried in the other order.
RepairDict_SqlFirst(d, content) ==
    LET d1 == IF "sql" \notin DOMAIN d
              THEN IF "SQL" \in DOMAIN d
                   THEN SetItem(d, "sql", d["SQL"])
                   ELSE IF "query" \in DOMAIN d
                        THEN SetItem(d, "sql", d["query"])
                        ELSE LET e1 == SetItem(d, "sql", Text(FailSql))
                             IN  IF "explanation" \notin DOMAIN e1
                                 THEN SetItem(e1, "explanation",
                                              Text(FailExplanationPrefix \o content))
                                 ELSE e1
              ELSE d
    IN  IF "explanation" \notin DOMAIN d1
        THEN SetItem(d1, "explanation", Text(DefaultExplanation))
        ELSE d1

\* The repair of a parsed dictionary: the sql field, then the explanation.
RepairDict(d, content) ==
    LET d1 == IF "sql" \notin DOMAIN d
              THEN IF "query" \in DOMAIN d
                   THEN SetItem(d, "sql", d["query"])
                   ELSE IF "SQL" \in DOMAIN d
                        THEN SetItem(d, "sql", d["SQL"])
                        ELSE LET e1 == SetItem(d, "sql", Text(FailSql))
                             IN  IF "explanation" \notin DOMAIN e1
                                 THEN SetItem(e1, "explanation",
                                              Text(FailExplanationPrefix \o content))
                                 ELSE e1
              ELSE d
    IN  IF "explanation" \notin DOMAIN d1
        THEN SetItem(d1, "explanation", Text(DefaultExplanation))
        ELSE d1

\* The try body of nl_to_sql after json.loads returned data.  A value that
\* is not a dictionary raises TypeError at the first in (a number, None)
\* or at the first data[...] (a list, a text); a list or text that holds
\* both "sql" and "explanation" passes both tests and is returned as is.
Repair(data, content) ==
    CASE data.tag = "dict" -> Dict(RepairDict(data.d, content))
      [] data.tag = "nontext" -> ErrorResult(TypeErrorMsg)
      [] OTHER ->
           IF ~HasKey(data, "sql") THEN ErrorResult(TypeErrorMsg)
           ELSE IF ~HasKey(data, "explanation") THEN ErrorResult(TypeErrorMsg)
           ELSE data

\* nl_to_sql with an except clause that catches only the parse error: a
\* failed completion call leaves the function as an exception.
nl_to_sql_NarrowExcept(resp) ==
    IF resp.call = "raise" THEN [tag |-> "raised"]
    ELSE LET parsed == json_loads(resp.content)
         IN  IF ~parsed.ok THEN ErrorResult(parsed.err)
             ELSE Repair(parsed.val, resp.content.s)

nl_to_sql(resp) ==
    IF resp.call = "raise" THEN ErrorResult(resp.err)
    ELSE LET parsed == json_loads(resp.content)
         IN  IF ~parsed.ok THEN ErrorResult(parsed.err)
             ELSE Repair(parsed.val, resp.content.s)

----------------------------------------------------------------------------
(* The store, the artifact requests and the generated code                 *)

\* "SELECT"
SELECT == <<"S", "E", "L", "E", "C", "T">>

\* A check that recognises only the sentinel comments.
LacksSelect_SentinelOnly(query) == StartsWith(query, <<"-", "-">>)

\* The test of the chat input handler on the query text:
\* "SELECT" not in query.upper()
LacksSelect(query) == ~Contains(Upper(query), SELECT)

\* A tabular result is the sequence of its rows; a row is its key.
RowSets == { <<>>, <<1, 2>> }

\* pd.read_sql_query raises the store's error or returns the rows.
StoreErrors == { <<"n", "o", " ", "s", "u", "c", "h", " ", "c", "o", "l", "u", "m", "n">> }

StoreOutcomes ==
    { [kind |-> "error", err |-> e, rows |-> <<>>] : e \in StoreErrors }
    \cup { [kind |-> "rows", err |-> <<>>, rows |-> r] : r \in RowSets }

\* Generated code is a sequence of lines.  A line is a code fence or one
\* statement, named by what it does to the figure and to the bound df:
\*   "plot"    draws on the current figure
\*   "newfig"  plt.figure(...): opens one more figure and makes it current
\*   "mutate"  changes df in place (df.drop(..., inplace=True))
\*   "raise"   raises an Exception
\*   "# ..."   a comment
\* The fence lines are the markdown code fences, with and without "python".
Fences == { "[fence]python", "[fence]" }

VizReplies ==
    { [call |-> "raise", content |-> <<>>] }
    \cup { [call |-> "ok", content |-> c] :
             c \in { <<"[fence]python", "plot", "[fence]">>,
                     <<"newfig", "plot">>,
                     <<"mutate", "plot">>,
                     <<"plot", "raise">>,
                     <<>> } }

\* re.sub(<fence>python|<fence>, "", code).strip()
StripFences(code) == SelectSeq(code, LAMBDA line : line \notin Fences)

\* "# 시각화 코드 생성 실패: {e}"
VizFailCode == << "# viz code generation failed" >>

generate_viz_code(reply) ==
    IF reply.call = "raise" THEN VizFailCode ELSE StripFences(reply.content)

\* "리포트 생성에 실패했습니다."
ReportFail == <<"r", "e", "p", "o", "r", "t", " ", "g", "e", "n", "e", "r", "a", "t", "i", "o", "n", " ", "f", "a", "i", "l", "e", "d">>

ReportReplies ==
    { [call |-> "raise", content |-> <<>>],
      [call |-> "ok", content |-> <<"r", "e", "p", "o", "r", "t">>] }

generate_report(reply) ==
    IF reply.call = "raise" THEN ReportFail ELSE reply.content

\* exec(viz_code, exec_globals, {'df': df}): the statements run in order on
\* the object df is bound to and on pyplot's open figures, up to the first
\* statement that raises.
RECURSIVE ExecFrom(_, _, _)
ExecFrom(code, i, env) ==
    IF i > Len(code) \/ env.raised THEN env
    ELSE ExecFrom(code, i + 1,
           CASE code[i] = "newfig" -> [env EXCEPT !.figs = @ + 1]
             [] code[i] = "mutate" ->
                  [env EXCEPT !.rows = IF @ = <<>> THEN @ ELSE Tail(@)]
             [] code[i] = "raise"  -> [env EXCEPT !.raised = TRUE]
             [] OTHER -> env)

\* One render: the try block around exec, in the replay and in the handler.
\*   fig = plt.figure(...); exec(code); st.pyplot(plt.gcf()); plt.close(fig)
\* plt.close(fig) closes the figure opened first and is skipped when exec
\* raises.  rows is the content of the DataFrame object bound to df.
Render(code, rows, figs) ==
    LET env == ExecFrom(code, 1, [rows |-> rows, figs |-> figs + 1, raised |-> FALSE])
    IN  IF env.raised
        THEN [rows |-> env.rows, figs |-> env.figs, captured |-> FALSE, failed |-> TRUE]
        ELSE [rows |-> env.rows, figs |-> env.figs - 1, captured |-> TRUE, failed |-> FALSE]

\* The live render without its except: what exec raises propagates.
LiveRender_NoExcept(code, rows, figs) ==
    [rendered |-> Render(code, rows, figs),
     propagates |-> Render(code, rows, figs).failed]

\* The render of the chat input handler: its bare except catches whatever
\* exec raises, so nothing propagates to the enclosing try.
LiveRender(code, rows, figs) ==
    [rendered |-> Render(code, rows, figs), propagates |-> FALSE]

\* The render of the history replay: except Exception, then st.error and
\* the offending code in an expander.
ReplayRender(code, rows, figs) ==
    [rendered |-> Render(code, rows, figs), propagates |-> FALSE]

\* The handler without the test of df_result.empty.
IsEmpty_Never(rows) == FALSE

\* df_result.empty
IsEmpty(rows) == rows = <<>>

----------------------------------------------------------------------------
(* The session                                                             *)

\* The result field of a turn that has none.
NoResult == [query |-> <<>>, df |-> 0, viz_code |-> <<>>, report |-> <<>>]

UserTurn(prompt) ==
    [role |-> "user", content |-> Text(prompt), hasResult |-> FALSE, result |-> NoResult]

AssistantTurn(content) ==
    [role |-> "assistant", content |-> content, hasResult |-> FALSE, result |-> NoResult]

ResultTurn(content, result) ==
    [role |-> "assistant", content |-> content, hasResult |-> TRUE, result |-> result]

\* "안녕하세요! 도서관 데이터에 대해 물어보세요."
Greeting == <<"h", "e", "l", "l", "o">>
\* "SQL 생성 실패: "
RejectPrefix == <<"S", "Q", "L", " ", "g", "e", "n", "e", "r", "a", "t", "i", "o", "n", " ", "f", "a", "i", "l", "e", "d", ":", " ">>
\* "데이터 조회 결과가 없습니다."
EmptyMessage == <<"n", "o", " ", "d", "a", "t", "a", " ", "f", "o", "u", "n", "d">>
\* "오류 발생: "
FailurePrefix == <<"e", "r", "r", "o", "r", ":", " ">>

Prompts == { <<"q">> }

NoResponse == [call |-> "none", err |-> <<>>, content |-> NonText]
NoStore == [kind |-> "none", err |-> <<>>, rows |-> <<>>]
NoViz == [call |-> "none", content |-> <<>>]
NoReport == [call |-> "none", content |-> <<>>]

\* What one script run did: the values of the handler's locals and the
\* calls it made.  renders, captures and renderErrors count the render
\* blocks of the whole run, the replay included.
NoRun ==
    [prompted |-> FALSE, resp |-> NoResponse, res_sql |-> NonText,
     outcome |-> "none", query |-> NonText, store |-> NoStore,
     connOpened |-> 0, executed |-> FALSE, vizCalls |-> 0, reportCalls |-> 0,
     viz_code |-> <<>>, report |-> <<>>,
     liveRender |-> "none", reportShown |-> FALSE,
     renders |-> 0, captures |-> 0, renderErrors |-> 0]

\* The loop over st.session_state.messages from turn i on: every turn with
\* a result bundle and a non-empty viz_code is rendered against the
\* DataFrame object its bundle refers to.
RECURSIVE ReplayFrom(_, _, _)
ReplayFrom(msgs, i, acc) ==
    IF i > Len(msgs) THEN acc
    ELSE IF msgs[i].hasResult /\ msgs[i].result.viz_code # <<>>
         THEN LET df == msgs[i].result.df
                  r == ReplayRender(msgs[i].result.viz_code, acc.frames[df], acc.figs).rendered
              IN  ReplayFrom(msgs, i + 1,
                    [frames |-> [acc.frames EXCEPT ![df] = r.rows],
                     figs |-> r.figs,
                     renders |-> acc.renders + 1,
                     captures |-> acc.captures + (IF r.captured THEN 1 ELSE 0),
                     errors |-> acc.errors + (IF r.failed THEN 1 ELSE 0)])
         ELSE ReplayFrom(msgs, i + 1, acc)

Replay ==
    ReplayFrom(messages, 1,
        [frames |-> frames, figs |-> openFigs, renders |-> 0, captures |-> 0, errors |-> 0])

\* The branch of the handler that runs the query (the else of the SELECT
\* check): connect, read_sql_query, close, then the artifacts, the live
\* render and the append.  Whatever is raised inside the try reaches its
\* except, which appends the error; conn.close() has run only if
\* read_sql_query returned.
\* s is the session after the replay and the append of the user turn.
Execute(s, query, explanation, store, viz, rep) ==
    IF store.kind = "error"
    THEN [s EXCEPT
            !.messages = Append(@, AssistantTurn(Text(FailurePrefix \o store.err))),
            !.openConns = @ + 1,
            !.run = [@ EXCEPT !.outcome = "failed", !.store = store,
                              !.connOpened = 1, !.executed = TRUE]]
    ELSE IF IsEmpty(store.rows)
    THEN [s EXCEPT
            !.messages = Append(@, AssistantTurn(Text(EmptyMessage))),
            !.run = [@ EXCEPT !.outcome = "empty", !.store = store,
                              !.connOpened = 1, !.executed = TRUE]]
    ELSE LET viz_code == generate_viz_code(viz)
             report == generate_report(rep)
             df == Len(s.frames) + 1
             result_data == [query |-> query, df |-> df,
                             viz_code |-> viz_code, report |-> report]
             live == LiveRender(viz_code, store.rows, s.openFigs)
             r == live.rendered
             ran == [s.run EXCEPT !.store = store,
                                  !.connOpened = 1, !.executed = TRUE,
                                  !.vizCalls = 1, !.reportCalls = 1,
                                  !.viz_code = viz_code, !.report = report,
                                  !.liveRender = IF r.failed THEN "failed" ELSE "ok",
                                  !.renders = @ + 1,
                                  !.captures = @ + (IF r.captured THEN 1 ELSE 0),
                                  !.renderErrors = @ + (IF r.failed THEN 1 ELSE 0)]
         IN  IF live.propagates
             THEN [s EXCEPT
                     !.messages = Append(@, AssistantTurn(Text(FailurePrefix \o TypeErrorMsg))),
                     !.openFigs = r.figs,
                     !.run = [ran EXCEPT !.outcome = "failed"]]
             ELSE [s EXCEPT
                     !.messages = Append(@, ResultTurn(explanation, result_data)),
                     !.frames = Append(@, r.rows),
                     !.returned = Append(@, store.rows),
                     !.openFigs = r.figs,
                     !.run = [ran EXCEPT !.outcome = "success", !.reportShown = TRUE]]

\* One script run with a question: the replay, then the chat input handler.
\* res_sql['sql'] raises on a value that is not a dictionary and
\* query.upper() raises on a value that is not text; both are outside any
\* try, so the run ends there with the user turn appended.
Handle(prompt, resp, store, viz, rep) ==
    LET rp == Replay
        res_sql == nl_to_sql(resp)
        s == [messages |-> Append(messages, UserTurn(prompt)),
              frames |-> rp.frames, returned |-> returned,
              openConns |-> openConns, openFigs |-> rp.figs,
              run |-> [NoRun EXCEPT !.prompted = TRUE, !.resp = resp,
                                    !.res_sql = res_sql,
                                    !.renders = rp.renders,
                                    !.captures = rp.captures,
                                    !.renderErrors = rp.errors]]
    IN  IF res_sql.tag # "dict"
        THEN [s EXCEPT !.run = [@ EXCEPT !.outcome = "crash"]]
        ELSE LET query == res_sql.d["sql"]
                 explanation == res_sql.d["explanation"]
             IN  IF ~IsText(query)
                 THEN [s EXCEPT !.run = [@ EXCEPT !.outcome = "crash", !.query = query]]
                 ELSE IF LacksSelect(query.s)
                 THEN [s EXCEPT
                         !.messages = Append(@, AssistantTurn(Text(RejectPrefix \o query.s))),
                         !.run = [@ EXCEPT !.outcome = "rejected", !.query = query]]
                 ELSE Execute([s EXCEPT !.run = [@ EXCEPT !.query = query]],
                              query.s, explanation, store, viz, rep)

\* Whether the handler reaches the store for this response.
ReachesStore(resp) ==
    LET res_sql == nl_to_sql(resp)
    IN  /\ res_sql.tag = "dict"
        /\ IsText(res_sql.d["sql"])
        /\ ~LacksSelect(res_sql.d["sql"].s)

Apply(s) ==
    /\ messages' = s.messages
    /\ frames' = s.frames
    /\ returned' = s.returned
    /\ openConns' = s.openConns
    /\ openFigs' = s.openFigs
    /\ run' = s.run

Init ==
    /\ messages = << AssistantTurn(Text(Greeting)) >>
    /\ frames = <<>>
    /\ returned = <<>>
    /\ openConns = 0
    /\ openFigs = 0
    /\ run = NoRun
    /\ questions = 0
    /\ reruns = 0

\* The user enters a question: the script runs with prompt set.
ChatInput ==
    /\ questions < MaxQuestions
    /\ questions' = questions + 1
    /\ UNCHANGED reruns
    /\ \E prompt \in Prompts, resp \in Responses :
         IF ~ReachesStore(resp)
         THEN Apply(Handle(prompt, resp, NoStore, NoViz, NoReport))
         ELSE \E store \in StoreOutcomes :
                IF store.kind = "error" \/ IsEmpty(store.rows)
                THEN Apply(Handle(prompt, resp, store, NoViz, NoReport))
                ELSE \E viz \in VizReplies, rep \in ReportReplies :
                       Apply(Handle(prompt, resp, store, viz, rep))

\* The script runs without a question (another widget changed): only the
\* replay of the history.
Rerun ==
    /\ reruns < MaxReruns
    /\ reruns' = reruns + 1
    /\ LET rp == Replay
       IN  /\ frames' = rp.frames
           /\ openFigs' = rp.figs
           /\ run' = [NoRun EXCEPT !.renders = rp.renders,
                                   !.captures = rp.captures,
                                   !.renderErrors = rp.errors]
    /\ UNCHANGED <<messages, returned, openConns, questions>>

Next == ChatInput \/ Rerun

Spec == Init /\ [][Next]_vars

----------------------------------------------------------------------------
(* Properties                                                              *)

\* The turn appended last.
Last == messages[Len(messages)]

\* The data-mutation keywords, in lower case.
MutationKeywords ==
    { <<"i", "n", "s", "e", "r", "t">>, <<"u", "p", "d", "a", "t", "e">>, <<"d", "e", "l", "e", "t", "e">>, <<"d", "r", "o", "p">>, <<"a", "l", "t", "e", "r">>, <<"a", "t", "t", "a", "c", "h">> }

HasMutationKeyword(text) == \E k \in MutationKeywords : Contains(Lower(text), k)

HasSelect(text) == Contains(Lower(text), <<"s", "e", "l", "e", "c", "t">>)

\* The completion call or the JSON parse raised for this response.
OracleFailed(resp) ==
    \/ resp.call = "raise"
    \/ resp.call = "ok" /\ ~json_loads(resp.content).ok

\* str(e) of what was raised.
OracleError(resp) ==
    IF resp.call = "raise" THEN resp.err ELSE json_loads(resp.content).err

IsSqlComment(v) == IsText(v) /\ StartsWith(v.s, <<"-", "-">>)

\* The run of a question did not reach the store and made no artifact.
NothingExecuted ==
    /\ run.connOpened = 0
    /\ ~run.executed
    /\ run.vizCalls = 0
    /\ run.reportCalls = 0
    /\ run.liveRender = "none"

\* C1: a synthesized query text that contains a data-mutation keyword, in
\* any casing and at any position, is rejected before execution: no store
\* connection is opened and the text is not run, also when the text
\* contains select.
C1_MutationKeywordRejected ==
    (run.prompted /\ IsText(run.query) /\ HasMutationKeyword(run.query.s))
        => (run.connOpened = 0 /\ ~run.executed /\ run.outcome = "rejected")

\* C2: when the completion call or the JSON parse raises, nl_to_sql does
\* not raise and returns a sentinel: sql is a SQL comment and the
\* explanation embeds the error message.
C2_OracleFailureGivesSentinel ==
    (run.prompted /\ OracleFailed(run.resp))
        => /\ run.res_sql.tag = "dict"
           /\ IsSqlComment(run.res_sql.d["sql"])
           /\ IsText(run.res_sql.d["explanation"])
           /\ Contains(run.res_sql.d["explanation"].s, OracleError(run.resp))

\* Witness of C2: a response that json.loads cannot parse was turned into
\* the sentinel and the question was answered.
C2_Witness ==
    /\ run.prompted
    /\ run.resp.call = "ok"
    /\ IsText(run.resp.content)
    /\ ~json_loads(run.resp.content).ok
    /\ OracleError(run.resp) # <<>>
    /\ run.outcome = "rejected"

\* C3: a query text without select (in any casing), which includes both
\* sentinels of nl_to_sql, never reaches execution: no connection, no
\* artifact, and the turn ends with an assistant message that carries the
\* query text verbatim.
C3_NoSelectNeverExecuted ==
    /\ (run.prompted /\ IsText(run.query) /\ ~HasSelect(run.query.s))
         => /\ run.outcome = "rejected"
            /\ NothingExecuted
            /\ Last.role = "assistant"
            /\ ~Last.hasResult
            /\ IsText(Last.content)
            /\ Contains(Last.content.s, run.query.s)
    /\ (run.prompted /\ run.res_sql.tag = "dict"
                     /\ run.res_sql.d["sql"] \in { Text(FailSql), Text(ErrorSql) })
         => (run.outcome = "rejected" /\ NothingExecuted)

\* Witness of C3: a sentinel of nl_to_sql was rejected by the SELECT check.
C3_Witness ==
    /\ run.prompted
    /\ run.query = Text(FailSql)
    /\ run.outcome = "rejected"
    /\ Len(messages) = 3

\* C4: for every response of the oracle and every store or render outcome
\* the processing of a question completes without an uncaught exception
\* and ends in an assistant message.
C4_NoUncaughtException ==
    run.prompted => (run.outcome # "crash" /\ Last.role = "assistant")

\* C5: an executed query with zero rows gives the empty-result outcome:
\* generate_viz_code and generate_report are not called, no render is
\* attempted and the appended assistant turn is the informational message
\* without a result bundle.
C5_EmptyResultSkipsArtifacts ==
    (run.prompted /\ run.executed /\ run.store.kind = "rows" /\ run.store.rows = <<>>)
        => /\ run.outcome = "empty"
           /\ run.vizCalls = 0
           /\ run.reportCalls = 0
           /\ run.liveRender = "none"
           /\ Last = AssistantTurn(Text(EmptyMessage))

\* Witness of C5: a query was executed and returned no rows.
C5_Witness ==
    /\ run.prompted
    /\ run.executed
    /\ run.store.kind = "rows"
    /\ run.store.rows = <<>>
    /\ run.connOpened = 1

\* C6: the connection opened for an execution is released on every exit
\* path: after a script run no connection remains open.
C6_ConnectionReleased == openConns = 0

\* C7: when the visualization code raises in the render of a turn with a
\* non-empty result, the report is still shown, the turn is appended with
\* its full result bundle and it is not recorded as an execution failure.
C7_RenderFailureContained ==
    (run.prompted /\ run.liveRender = "failed")
        => /\ run.outcome = "success"
           /\ run.reportShown
           /\ Last.role = "assistant"
           /\ Last.hasResult
           /\ Last.content = run.res_sql.d["explanation"]
           /\ Last.result.query = run.query.s
           /\ Last.result.viz_code = run.viz_code
           /\ Last.result.report = run.report
           /\ Last.result.df \in DOMAIN frames
           /\ returned[Last.result.df] = run.store.rows

\* Witness of C7: the live render of a question failed.
C7_Witness ==
    /\ run.prompted
    /\ run.liveRender = "failed"
    /\ run.renderErrors >= 1
    /\ run.store.rows # <<>>

\* C8: the data stored in every turn's bundle equals the data its query
\* execution returned, after any questions and re-renders.
C8_ResultNeverMutated ==
    \A i \in 1..Len(messages) :
        messages[i].hasResult
            => frames[messages[i].result.df] = returned[messages[i].result.df]

\* C9 as stated: for a parsed mapping without sql the query is recovered
\* from query, otherwise from SQL; with none of the three the result is the
\* sentinel comment and an explanation that describes the malformation,
\* also when the response has its own explanation.
C9_Original ==
    (run.prompted /\ run.resp.call = "ok" /\ json_loads(run.resp.content).ok
        /\ json_loads(run.resp.content).val.tag = "dict"
        /\ "sql" \notin DOMAIN json_loads(run.resp.content).val.d)
    => LET d == json_loads(run.resp.content).val.d
           res == run.res_sql
       IN  /\ res.tag = "dict"
           /\ "query" \in DOMAIN d => res.d["sql"] = d["query"]
           /\ ("query" \notin DOMAIN d /\ "SQL" \in DOMAIN d) => res.d["sql"] = d["SQL"]
           /\ ({"query", "SQL"} \cap DOMAIN d = {})
                => /\ IsSqlComment(res.d["sql"])
                   /\ IsText(res.d["explanation"])
                   /\ StartsWith(res.d["explanation"].s, FailExplanationPrefix)

\* C9, amended: as above, but with none of the three fields the
\* explanation is the response's own explanation when it has one, and the
\* text describing the malformation (the prefix and the raw response)
\* otherwise.
C9_MissingSqlRecovered ==
    (run.prompted /\ run.resp.call = "ok" /\ json_loads(run.resp.content).ok
        /\ json_loads(run.resp.content).val.tag = "dict"
        /\ "sql" \notin DOMAIN json_loads(run.resp.content).val.d)
    => LET d == json_loads(run.resp.content).val.d
           res == run.res_sql
       IN  /\ res.tag = "dict"
           /\ "query" \in DOMAIN d => res.d["sql"] = d["query"]
           /\ ("query" \notin DOMAIN d /\ "SQL" \in DOMAIN d) => res.d["sql"] = d["SQL"]
           /\ ({"query", "SQL"} \cap DOMAIN d = {})
                => /\ IsSqlComment(res.d["sql"])
                   /\ res.d["sql"] = Text(FailSql)
                   /\ "explanation" \in DOMAIN d
                        => res.d["explanation"] = d["explanation"]
                   /\ "explanation" \notin DOMAIN d
                        => res.d["explanation"] =
                             Text(FailExplanationPrefix \o run.resp.content.s)

\* Witness of C9: a mapping with query and SQL but no sql was recovered
\* from query.
C9_Witness ==
    /\ run.prompted
    /\ run.resp.call = "ok"
    /\ json_loads(run.resp.content).ok
    /\ json_loads(run.resp.content).val.tag = "dict"
    /\ DOMAIN json_loads(run.resp.content).val.d = {"query", "SQL"}
    /\ run.res_sql.d["sql"] = json_loads(run.resp.content).val.d["query"]
    /\ run.res_sql.d["sql"] # json_loads(run.resp.content).val.d["SQL"]

\* C10: after every render the current figure was captured only on
\* success and every figure opened for the render has been released: no
\* figure is open once a script run ends.
C10_FiguresReleased ==
    /\ openFigs = 0
    /\ run.captures = run.renders - run.renderErrors

\* The roles of the turns alternate, starting with the greeting of the
\* assistant.
Alternates(msgs) ==
    \A i \in 1..Len(msgs) :
        msgs[i].role = IF i % 2 = 1 THEN "assistant" ELSE "user"

\* C11: the history is an append-only log: a script run never removes,
\* reorders or replaces a turn, and the processing of one question appends
\* exactly one user turn followed by exactly one assistant turn, so that
\* the turns alternate after the greeting.
C11_AppendOnlyAlternating ==
    [][ /\ Len(messages') >= Len(messages)
        /\ SubSeq(messages', 1, Len(messages)) = messages
        /\ (questions' = questions) => (messages' = messages)
        /\ (questions' = questions + 1)
             => /\ Len(messages') = Len(messages) + 2
                /\ messages'[Len(messages) + 1].role = "user"
                /\ messages'[Len(messages) + 2].role = "assistant"
        /\ Alternates(messages') ]_vars

====
